---- MODULE Spec2Model ----
(***************************************************************************)
(* Model of the sqlite3 locking benchmark (main.go): main's dispatch on    *)
(* -type, runTest's seeding, the reader pool, the writer pool, the work    *)
(* generator and the two completion barriers, over the three RWLocker      *)
(* implementations (FakeLocker, MutexWrapper, sync.RWMutex).               *)
(* The store (database/sql over sqlite3) is an opaque collaborator: every  *)
(* Exec/Query either succeeds or returns an error, chosen                  *)
(* nondeterministically.                                                   *)
(***************************************************************************)
EXTENDS Integers, Sequences, FiniteSets, TLC

\* ---- bounds of the model ------------------------------------------------
MaxWriters == 2
MaxReaders == 2
MaxRows    == 2
MaxUpdates == 2
MaxPayload == 1
\* total number of store errors (busy) injected during one run
MaxBusy    == 1
\* total number of scans the reader pool begins during one run
MaxScans   == 2

\* ---- program constants --------------------------------------------------
WRITE_CODE        == "."
WRITE_RETRY_CODE  == "|"
SELECT_CODE       == "-"
SELECT_RETRY_CODE == "|"

\* the "stop signal" value the generator sends last
Sentinel == -1

\* the values -type can take that main's switch knows, and one it does not
LockTypes == {"none", "mutex", "rwmutex"}
TestTypes == LockTypes \cup {"bogus"}

\* rand.Intn(int(math.MaxUint32)), cut down to a small range
Payloads == 0..MaxPayload

Marks == {WRITE_CODE, WRITE_RETRY_CODE, SELECT_CODE, SELECT_RETRY_CODE}

VARIABLES
    testType, writerCount, readerCount, numRows, numUpdates, \* the flags
    ctl,          \* position of main / runTest
    seedI,        \* the seeding loop's i
    testData,     \* the table: id -> value
    err,          \* the error runTest returns ("nil" or "err")
    durTaken,     \* dur has been computed
    exitCode,     \* -1 while running
    durPrinted,   \* main printed "Duration: "
    readerWG, writerWG,
    stopReaders,  \* the channel is closed
    workChan,     \* the buffer of the channel
    chanClosed,   \* workChan is closed
    gpc, genI,    \* the generator goroutine
    wpc, wval, wid, \* writer goroutines: position, val, last target id
    rpc,          \* reader goroutines
    locker,       \* [w: mutex locked / writer present, r: readers inside]
    out,          \* standard output: mark -> number of times printed
    crashed,      \* a goroutine panicked: the process is gone
    enqueued,     \* history: payloads sent by the generator, in order
    taken,        \* history: <<val, writer>> of every value received
    applied,      \* history: <<val, id>> of every successful UPDATE
    doneAfterStop, \* history: scans a reader completed after close(stopReaders)
    wheld, rheld, \* history: Lock()/RLock() calls returned minus Unlock()/RUnlock() calls
    wtries,       \* history: failed attempts of a writer at its current work item
    attempts,     \* history: store attempts made, by kind
    panicMsg      \* the message of the panic, "" while there is none

vars == <<testType, writerCount, readerCount, numRows, numUpdates, ctl, seedI,
          testData, err, durTaken, exitCode, durPrinted, readerWG, writerWG,
          stopReaders, workChan, chanClosed, gpc, genI, wpc, wval, wid, rpc,
          locker, out, crashed, enqueued, taken, applied, doneAfterStop,
          wheld, rheld, wtries, attempts, panicMsg>>

flagVars == <<testType, writerCount, readerCount, numRows, numUpdates>>
mainVars == <<err, durTaken, exitCode, durPrinted>>
seedVars == <<seedI>>
genVars  == <<gpc, genI, enqueued>>
wVars    == <<wpc, wval, wid, taken, applied>>
rVars    == <<rpc, doneAfterStop>>
histVars == <<wheld, rheld, wtries, attempts, panicMsg>>

\* the four kinds of attempt at the store
Kinds == {"write", "writeRetry", "select", "selectRetry"}

Writers == DOMAIN wpc
Readers == DOMAIN rpc

\* ---- the RWLocker implementations ---------------------------------------

\* the switch with the "none" case handing out the mutex locker
LockerOf_NoneIsMutex(t) ==
    CASE t = "none"    -> "MutexWrapper"
      [] t = "mutex"   -> "MutexWrapper"
      [] t = "rwmutex" -> "RWMutex"
      [] OTHER         -> "invalid"

\* main's switch on *testType
LockerOf(t) ==
    CASE t = "none"    -> "FakeLocker"
      [] t = "mutex"   -> "MutexWrapper"
      [] t = "rwmutex" -> "RWMutex"
      [] OTHER         -> "invalid"

\* Lock() can take the lock now (RWMutex: take rw.w and announce the writer)
LockReady(k, l) ==
    CASE k = "FakeLocker"   -> TRUE
      [] k = "MutexWrapper" -> ~l.w
      [] k = "RWMutex"      -> ~l.w

AfterLock(k, l) ==
    CASE k = "FakeLocker"   -> l
      [] k = "MutexWrapper" -> [l EXCEPT !.w = TRUE]
      [] k = "RWMutex"      -> [l EXCEPT !.w = TRUE]

\* a Lock() that does not wait for the readers inside
DrainReady_NoWait(k, l) == TRUE

\* RWMutex.Lock() then waits for the readers inside to leave
DrainReady(k, l) == k = "RWMutex" => l.r = 0

AfterUnlock(k, l) ==
    CASE k = "FakeLocker"   -> l
      [] k = "MutexWrapper" -> [l EXCEPT !.w = FALSE]
      [] k = "RWMutex"      -> [l EXCEPT !.w = FALSE]

\* a MutexWrapper whose RLock() does not wait for the mutex
RLockReady_NoDelegate(k, l) ==
    CASE k = "FakeLocker"   -> TRUE
      [] k = "MutexWrapper" -> TRUE
      [] k = "RWMutex"      -> ~l.w

\* an RWMutex whose RLock() also excludes other readers
RLockReady_Exclusive(k, l) ==
    CASE k = "FakeLocker"   -> TRUE
      [] k = "MutexWrapper" -> LockReady(k, l)
      [] k = "RWMutex"      -> ~l.w /\ l.r = 0

\* RLock(): MutexWrapper delegates to Lock(); RWMutex admits a reader unless
\* a writer holds the lock or waits for it
RLockReady(k, l) ==
    CASE k = "FakeLocker"   -> TRUE
      [] k = "MutexWrapper" -> LockReady(k, l)
      [] k = "RWMutex"      -> ~l.w

AfterRLock(k, l) ==
    CASE k = "FakeLocker"   -> l
      [] k = "MutexWrapper" -> AfterLock(k, l)
      [] k = "RWMutex"      -> [l EXCEPT !.r = @ + 1]

AfterRUnlock(k, l) ==
    CASE k = "FakeLocker"   -> l
      [] k = "MutexWrapper" -> AfterUnlock(k, l)
      [] k = "RWMutex"      -> [l EXCEPT !.r = @ - 1]

\* Unlock()/RUnlock() of a lock that is not held is a fatal runtime error
UnlockOK(k, l) == k = "FakeLocker" \/ l.w
RUnlockOK(k, l) ==
    CASE k = "FakeLocker"   -> TRUE
      [] k = "MutexWrapper" -> UnlockOK(k, l)
      [] k = "RWMutex"      -> l.r > 0

\* ---- small pieces of runTest --------------------------------------------

\* make(chan int, writerCount*2)
ChanCap(w) == w * 2

\* for i := 0; i <= numRows; i++
SeedMore(i, n) == i <= n

\* INSERT INTO testData(id, value) VALUES (?,0)
Insert(tbl, id) == [j \in DOMAIN tbl \cup {id} |-> IF j = id THEN 0 ELSE tbl[j]]

\* UPDATE testData set value=? WHERE id=?
Update(tbl, val, id) ==
    IF id \in DOMAIN tbl THEN [tbl EXCEPT ![id] = val] ELSE tbl

\* the generator's loop running one time too many
GenHasNext_OffByOne(i, n) == i <= n

\* for i := 0; i < numUpdates; i++
GenHasNext(i, n) == i < n

\* a queue that hands out the newest value first
Send_Lifo(ch, v) == <<v>> \o ch

\* workChan <- v
Send(ch, v) == Append(ch, v)

\* the value and the rest of the buffer of val := <-workChan
RecvVal(ch)  == Head(ch)

\* a receive that leaves the value in the buffer
RecvRest_Keep(ch) == ch

RecvRest(ch) == Tail(ch)

\* a writer that takes the stop signal for a payload
IsSentinel_Never(val) == FALSE

\* a test that takes the payload 0 for the stop signal as well
IsSentinel_NonPositive(val) == val <= 0

\* if val == -1
IsSentinel(val) == val = Sentinel

\* a reader that never looks at the stop channel
StopObserved_Never(stop) == FALSE

\* case <-stopReaders: is ready once the channel is closed
StopObserved(stop) == stop

\* a writer that goes to the store without calling Lock()
WNextAfterRecv_NoLock(sentinel) == IF sentinel THEN "close" ELSE "exec"

\* the writer's next position after a receive: a stop signal or a payload
WNextAfterRecv(sentinel) == IF sentinel THEN "close" ELSE "lock"

\* a retry that starts over at Lock()
WNextAfterUpdate_Relock(ok) == IF ok THEN "unlock" ELSE "lock"

\* a retry that gives up and goes on to Unlock()
WNextAfterUpdate_GiveUp(ok) == "unlock"

\* the writer's next position after db.Exec: break on success, continue on error
WNextAfterUpdate(ok) == IF ok THEN "unlock" ELSE "exec"

\* target ids drawn as rand.Intn(numRows), without the 1+
Targets_ZeroBased(n) == 0..(n - 1)

\* the ids 1+rand.Intn(numRows) can yield
Targets(n) == 1..n

\* a close(workChan) that has no effect
CloseChan_Noop(closed) == closed

\* close(workChan) leaves the channel closed
CloseChan(closed) == TRUE

\* a Wait() that returns without waiting
WaitDone_NoWait(wg) == TRUE

\* WaitGroup.Wait() returns when the counter is zero
WaitDone(wg) == wg = 0

\* a setup statement whose error is dropped
AfterSetup_IgnoreError(ok, next) == next

\* where runTest goes on after a setup statement: on error return 0, err
AfterSetup(ok, next) == IF ok THEN next ELSE "report"

\* a print that writes the mark twice
Emit_Twice(o, mark) == [o EXCEPT ![mark] = @ + 2]

\* fmt.Print(mark)
Emit(o, mark) == [o EXCEPT ![mark] = @ + 1]

\* retry marks printed so far, by writers and readers together
Retries ==
    IF WRITE_RETRY_CODE = SELECT_RETRY_CODE
    THEN out[WRITE_RETRY_CODE]
    ELSE out[WRITE_RETRY_CODE] + out[SELECT_RETRY_CODE]

\* the store may still answer "busy" (bound of the model)
MayFail == Retries < MaxBusy

\* scans begun so far (bound of the model)
ScansBegun == out[SELECT_CODE] + Cardinality({r \in Readers : rpc[r] \in {"rlock", "query"}})

\* ---- initial states -----------------------------------------------------
Init ==
    /\ testType \in TestTypes
    /\ writerCount \in 0..MaxWriters
    /\ readerCount \in 0..MaxReaders
    /\ numRows \in 0..MaxRows
    /\ numUpdates \in 0..MaxUpdates
    /\ ctl = "main"
    /\ seedI = 0
    /\ testData = <<>>
    /\ err = "nil"
    /\ durTaken = FALSE
    /\ exitCode = -1
    /\ durPrinted = FALSE
    /\ readerWG = 0
    /\ writerWG = 0
    /\ stopReaders = FALSE
    /\ workChan = <<>>
    /\ chanClosed = FALSE
    /\ gpc = "idle"
    /\ genI = 0
    /\ wpc = [w \in 1..writerCount |-> "idle"]
    /\ wval = [w \in 1..writerCount |-> 0]
    /\ wid = [w \in 1..writerCount |-> 0]
    /\ rpc = [r \in 1..readerCount |-> "idle"]
    /\ locker = [w |-> FALSE, r |-> 0]
    /\ out = [m \in Marks |-> 0]
    /\ crashed = FALSE
    /\ enqueued = <<>>
    /\ taken = <<>>
    /\ applied = <<>>
    /\ doneAfterStop = [r \in 1..readerCount |-> 0]
    /\ wheld = [w \in 1..writerCount |-> 0]
    /\ rheld = [r \in 1..readerCount |-> 0]
    /\ wtries = [w \in 1..writerCount |-> 0]
    /\ attempts = [k \in Kinds |-> 0]
    /\ panicMsg = ""

\* the process is alive: no goroutine has panicked and main has not ended
Running == ~crashed /\ ctl # "exit"

\* ---- main and runTest (the controller) ----------------------------------

\* main: switch *testType; the default case only prints and leaves err nil
MainSwitch ==
    /\ Running
    /\ UNCHANGED histVars
    /\ ctl = "main"
    /\ ctl' = IF LockerOf(testType) = "invalid" THEN "report" ELSE "create"
    /\ UNCHANGED <<flagVars, mainVars, seedVars, testData, readerWG, writerWG,
                   stopReaders, workChan, chanClosed, genVars, wVars, rVars,
                   locker, out, crashed>>

\* CREATE TABLE ...: in runTest, on error return 0, err; in the variant that
\* creates the table in main, on error main prints the error and returns,
\* which ends the process with exit code 0
CreateTable ==
    /\ Running
    /\ UNCHANGED histVars
    /\ ctl = "create"
    /\ \/ /\ ctl' = AfterSetup(TRUE, "seed")
          /\ UNCHANGED <<err, exitCode>>
       \/ /\ ctl' = AfterSetup(FALSE, "seed")
          /\ err' = "err"
          /\ exitCode' = exitCode
       \/ /\ ctl' = "exit"
          /\ err' = "err"
          /\ exitCode' = 0
    /\ UNCHANGED <<flagVars, durTaken, durPrinted, seedVars, testData,
                   readerWG, writerWG, stopReaders, workChan, chanClosed,
                   genVars, wVars, rVars, locker, out, crashed>>

\* runTest: one iteration of the seeding loop, or its end
SeedRow ==
    /\ Running
    /\ UNCHANGED histVars
    /\ ctl = "seed"
    /\ IF SeedMore(seedI, numRows)
       THEN \/ /\ testData' = Insert(testData, seedI)
               /\ seedI' = seedI + 1
               /\ ctl' = AfterSetup(TRUE, ctl)
               /\ err' = err
            \/ /\ ctl' = AfterSetup(FALSE, ctl)
               /\ err' = "err"
               /\ UNCHANGED <<testData, seedI>>
       ELSE /\ ctl' = "spawnReaders"
            /\ UNCHANGED <<testData, seedI, err>>
    /\ UNCHANGED <<flagVars, durTaken, exitCode, durPrinted, readerWG, writerWG,
                   stopReaders, workChan, chanClosed, genVars, wVars, rVars,
                   locker, out, crashed>>

\* runTest: the loop that starts the reader goroutines
SpawnReaders ==
    /\ Running
    /\ UNCHANGED histVars
    /\ ctl = "spawnReaders"
    /\ readerWG' = readerWG + readerCount
    /\ rpc' = [r \in Readers |-> "select"]
    /\ ctl' = "spawnWriters"
    /\ UNCHANGED <<flagVars, mainVars, seedVars, testData, writerWG, stopReaders,
                   workChan, chanClosed, genVars, wVars, doneAfterStop, locker,
                   out, crashed>>

\* runTest: make(chan int, writerCount*2) and the loop that starts the writers
SpawnWriters ==
    /\ Running
    /\ UNCHANGED histVars
    /\ ctl = "spawnWriters"
    /\ writerWG' = writerWG + writerCount
    /\ wpc' = [w \in Writers |-> "recv"]
    /\ ctl' = "spawnGen"
    /\ UNCHANGED <<flagVars, mainVars, seedVars, testData, readerWG, stopReaders,
                   workChan, chanClosed, genVars, wval, wid, taken, applied,
                   rVars, locker, out, crashed>>

\* runTest: go func() { ... } of the generator; start := time.Now()
SpawnGen ==
    /\ Running
    /\ UNCHANGED histVars
    /\ ctl = "spawnGen"
    /\ gpc' = "loop"
    /\ ctl' = "waitWriters"
    /\ UNCHANGED <<flagVars, mainVars, seedVars, testData, readerWG, writerWG,
                   stopReaders, workChan, chanClosed, genI, enqueued, wVars,
                   rVars, locker, out, crashed>>

\* runTest: writerWG.Wait(); dur := time.Now().Sub(start)
WaitWriters ==
    /\ Running
    /\ UNCHANGED histVars
    /\ ctl = "waitWriters"
    /\ WaitDone(writerWG)
    /\ durTaken' = TRUE
    /\ ctl' = "closeStop"
    /\ UNCHANGED <<flagVars, err, exitCode, durPrinted, seedVars, testData,
                   readerWG, writerWG, stopReaders, workChan, chanClosed,
                   genVars, wVars, rVars, locker, out, crashed>>

\* runTest: close(stopReaders)
CloseStop ==
    /\ Running
    /\ UNCHANGED histVars
    /\ ctl = "closeStop"
    /\ stopReaders' = TRUE
    /\ ctl' = "waitReaders"
    /\ UNCHANGED <<flagVars, mainVars, seedVars, testData, readerWG, writerWG,
                   workChan, chanClosed, genVars, wVars, rVars, locker, out,
                   crashed>>

\* runTest: readerWG.Wait(); return dur, nil
WaitReaders ==
    /\ Running
    /\ UNCHANGED histVars
    /\ ctl = "waitReaders"
    /\ WaitDone(readerWG)
    /\ ctl' = "report"
    /\ UNCHANGED <<flagVars, mainVars, seedVars, testData, readerWG, writerWG,
                   stopReaders, workChan, chanClosed, genVars, wVars, rVars,
                   locker, out, crashed>>

\* main: if err != nil { print; os.Exit(1) } else { print "Duration: " }
Report ==
    /\ Running
    /\ UNCHANGED histVars
    /\ ctl = "report"
    /\ ctl' = "exit"
    /\ IF err # "nil"
       THEN exitCode' = 1 /\ durPrinted' = durPrinted
       ELSE exitCode' = 0 /\ durPrinted' = TRUE
    /\ UNCHANGED <<flagVars, err, durTaken, seedVars, testData, readerWG,
                   writerWG, stopReaders, workChan, chanClosed, genVars, wVars,
                   rVars, locker, out, crashed>>

\* ---- the work generator -------------------------------------------------

\* workChan <- rand.Intn(...) in the loop, then workChan <- -1
Generate ==
    /\ Running
    /\ gpc = "loop"
    /\ IF chanClosed
       THEN \* send on a closed channel panics
            /\ crashed' = TRUE
            /\ panicMsg' = "send on closed channel"
            /\ UNCHANGED <<workChan, gpc, genI, enqueued>>
       ELSE /\ Len(workChan) < ChanCap(writerCount)
            /\ UNCHANGED <<crashed, panicMsg>>
            /\ IF GenHasNext(genI, numUpdates)
               THEN \E v \in Payloads :
                       /\ workChan' = Send(workChan, v)
                       /\ enqueued' = Append(enqueued, v)
                       /\ genI' = genI + 1
                       /\ gpc' = gpc
               ELSE /\ workChan' = Send(workChan, Sentinel)
                    /\ gpc' = "done"
                    /\ UNCHANGED <<genI, enqueued>>
    /\ UNCHANGED <<flagVars, ctl, mainVars, seedVars, testData, readerWG,
                   writerWG, stopReaders, chanClosed, wVars, rVars, locker, out,
                   wheld, rheld, wtries, attempts>>

\* ---- a writer goroutine -------------------------------------------------

\* for val := range workChan: a value, or the end of the loop when the
\* channel is closed and drained (then return; defer writerWG.Done())
WRecv(w) ==
    /\ Running
    /\ wpc[w] = "recv"
    /\ IF workChan # <<>>
       THEN /\ wval' = [wval EXCEPT ![w] = RecvVal(workChan)]
            /\ workChan' = RecvRest(workChan)
            /\ wpc' = [wpc EXCEPT ![w] = WNextAfterRecv(IsSentinel(RecvVal(workChan)))]
            /\ taken' = IF IsSentinel(RecvVal(workChan))
                         THEN taken
                         ELSE Append(taken, <<RecvVal(workChan), w>>)
            /\ wtries' = [wtries EXCEPT ![w] = 0]
            /\ writerWG' = writerWG
       ELSE /\ chanClosed
            /\ wpc' = [wpc EXCEPT ![w] = "done"]
            /\ writerWG' = writerWG - 1
            /\ UNCHANGED <<wval, workChan, taken, wtries>>
    /\ UNCHANGED <<flagVars, ctl, mainVars, seedVars, testData, readerWG,
                   stopReaders, chanClosed, genVars, wid, applied, rVars,
                   locker, out, crashed, wheld, rheld, attempts, panicMsg>>

\* close(workChan); return
WClose(w) ==
    /\ Running
    /\ wpc[w] = "close"
    /\ IF chanClosed
       THEN \* close of a closed channel panics
            /\ crashed' = TRUE
            /\ panicMsg' = "close of closed channel"
            /\ UNCHANGED <<chanClosed, wpc, writerWG>>
       ELSE /\ chanClosed' = CloseChan(chanClosed)
            /\ wpc' = [wpc EXCEPT ![w] = "done"]
            /\ writerWG' = writerWG - 1
            /\ UNCHANGED <<crashed, panicMsg>>
    /\ UNCHANGED <<flagVars, ctl, mainVars, seedVars, testData, readerWG,
                   stopReaders, workChan, genVars, wval, wid, taken, applied,
                   rVars, locker, out, wheld, rheld, wtries, attempts>>

\* locker.Lock()
WLock(w) ==
    /\ Running
    /\ UNCHANGED histVars
    /\ wpc[w] = "lock"
    /\ LockReady(LockerOf(testType), locker)
    /\ locker' = AfterLock(LockerOf(testType), locker)
    /\ wpc' = [wpc EXCEPT ![w] = "drain"]
    /\ UNCHANGED <<flagVars, ctl, mainVars, seedVars, testData, readerWG,
                   writerWG, stopReaders, workChan, chanClosed, genVars, wval,
                   wid, taken, applied, rVars, out, crashed>>

\* the rest of locker.Lock(): sync.RWMutex waits for the readers inside
WDrain(w) ==
    /\ Running
    /\ wpc[w] = "drain"
    /\ DrainReady(LockerOf(testType), locker)
    /\ wpc' = [wpc EXCEPT ![w] = "exec"]
    /\ wheld' = [wheld EXCEPT ![w] = @ + 1]
    /\ UNCHANGED <<flagVars, ctl, mainVars, seedVars, testData, readerWG,
                   writerWG, stopReaders, workChan, chanClosed, genVars, wval,
                   wid, taken, applied, rVars, locker, out, crashed,
                   rheld, wtries, attempts, panicMsg>>

\* one iteration of the retry loop: db.Exec("UPDATE ...", val, 1+rand.Intn(numRows))
WExec(w) ==
    /\ Running
    /\ wpc[w] = "exec"
    /\ IF numRows <= 0
       THEN \* rand.Intn panics on an argument <= 0
            /\ crashed' = TRUE
            /\ panicMsg' = "invalid argument to Intn"
            /\ UNCHANGED <<testData, out, wpc, wid, applied, wtries, attempts>>
       ELSE /\ UNCHANGED <<crashed, panicMsg>>
            /\ \E id \in Targets(numRows) :
                  /\ wid' = [wid EXCEPT ![w] = id]
                  /\ \/ /\ testData' = Update(testData, wval[w], id)
                        /\ out' = Emit(out, WRITE_CODE)
                        /\ attempts' = [attempts EXCEPT !["write"] = @ + 1]
                        /\ applied' = Append(applied, <<wval[w], id>>)
                        /\ wpc' = [wpc EXCEPT ![w] = WNextAfterUpdate(TRUE)]
                        /\ wtries' = wtries
                     \/ /\ MayFail
                        /\ out' = Emit(out, WRITE_RETRY_CODE)
                        /\ attempts' = [attempts EXCEPT !["writeRetry"] = @ + 1]
                        /\ wpc' = [wpc EXCEPT ![w] = WNextAfterUpdate(FALSE)]
                        /\ wtries' = [wtries EXCEPT ![w] = @ + 1]
                        /\ UNCHANGED <<testData, applied>>
    /\ UNCHANGED <<flagVars, ctl, mainVars, seedVars, readerWG, writerWG,
                   stopReaders, workChan, chanClosed, genVars, wval, taken,
                   rVars, locker, wheld, rheld>>

\* locker.Unlock()
WUnlock(w) ==
    /\ Running
    /\ wpc[w] = "unlock"
    /\ IF UnlockOK(LockerOf(testType), locker)
       THEN /\ locker' = AfterUnlock(LockerOf(testType), locker)
            /\ wpc' = [wpc EXCEPT ![w] = "recv"]
            /\ wheld' = [wheld EXCEPT ![w] = @ - 1]
            /\ UNCHANGED <<crashed, panicMsg>>
       ELSE /\ crashed' = TRUE
            /\ panicMsg' = "unlock of unlocked mutex"
            /\ UNCHANGED <<locker, wpc, wheld>>
    /\ UNCHANGED <<flagVars, ctl, mainVars, seedVars, testData, readerWG,
                   writerWG, stopReaders, workChan, chanClosed, genVars, wval,
                   wid, taken, applied, rVars, out, rheld, wtries, attempts>>

\* ---- a reader goroutine -------------------------------------------------

\* select { case <-stopReaders: return; default: ... }
RSelect(r) ==
    /\ Running
    /\ UNCHANGED histVars
    /\ rpc[r] = "select"
    /\ IF StopObserved(stopReaders)
       THEN /\ rpc' = [rpc EXCEPT ![r] = "done"]
            /\ readerWG' = readerWG - 1
       ELSE /\ ScansBegun < MaxScans
            /\ rpc' = [rpc EXCEPT ![r] = "rlock"]
            /\ readerWG' = readerWG
    /\ UNCHANGED <<flagVars, ctl, mainVars, seedVars, testData, writerWG,
                   stopReaders, workChan, chanClosed, genVars, wVars,
                   doneAfterStop, locker, out, crashed>>

\* locker.RLock()
RRLock(r) ==
    /\ Running
    /\ rpc[r] = "rlock"
    /\ RLockReady(LockerOf(testType), locker)
    /\ locker' = AfterRLock(LockerOf(testType), locker)
    /\ rpc' = [rpc EXCEPT ![r] = "query"]
    /\ rheld' = [rheld EXCEPT ![r] = @ + 1]
    /\ UNCHANGED <<flagVars, ctl, mainVars, seedVars, testData, readerWG,
                   writerWG, stopReaders, workChan, chanClosed, genVars, wVars,
                   doneAfterStop, out, crashed, wheld, wtries, attempts, panicMsg>>

\* one iteration of the retry loop: db.Query("SELECT * FROM testData")
RQuery(r) ==
    /\ Running
    /\ rpc[r] = "query"
    /\ \/ /\ out' = Emit(out, SELECT_CODE)
          /\ attempts' = [attempts EXCEPT !["select"] = @ + 1]
          /\ rpc' = [rpc EXCEPT ![r] = "runlock"]
          /\ doneAfterStop' = [doneAfterStop EXCEPT
                                 ![r] = IF stopReaders THEN @ + 1 ELSE @]
       \/ /\ MayFail
          /\ out' = Emit(out, SELECT_RETRY_CODE)
          /\ attempts' = [attempts EXCEPT !["selectRetry"] = @ + 1]
          /\ UNCHANGED <<rpc, doneAfterStop>>
    /\ UNCHANGED <<flagVars, ctl, mainVars, seedVars, testData, readerWG,
                   writerWG, stopReaders, workChan, chanClosed, genVars, wVars,
                   locker, crashed, wheld, rheld, wtries, panicMsg>>

\* locker.RUnlock()
RRUnlock(r) ==
    /\ Running
    /\ rpc[r] = "runlock"
    /\ IF RUnlockOK(LockerOf(testType), locker)
       THEN /\ locker' = AfterRUnlock(LockerOf(testType), locker)
            /\ rpc' = [rpc EXCEPT ![r] = "select"]
            /\ rheld' = [rheld EXCEPT ![r] = @ - 1]
            /\ UNCHANGED <<crashed, panicMsg>>
       ELSE /\ crashed' = TRUE
            /\ panicMsg' = "RUnlock of unlocked RWMutex"
            /\ UNCHANGED <<locker, rpc, rheld>>
    /\ UNCHANGED <<flagVars, ctl, mainVars, seedVars, testData, readerWG,
                   writerWG, stopReaders, workChan, chanClosed, genVars, wVars,
                   doneAfterStop, out, wheld, wtries, attempts>>

\* ---- the program --------------------------------------------------------

Next ==
    \/ MainSwitch
    \/ CreateTable
    \/ SeedRow
    \/ SpawnReaders
    \/ SpawnWriters
    \/ SpawnGen
    \/ WaitWriters
    \/ CloseStop
    \/ WaitReaders
    \/ Report
    \/ Generate
    \/ \E w \in 1..MaxWriters : w \in Writers /\ WRecv(w)
    \/ \E w \in 1..MaxWriters : w \in Writers /\ WClose(w)
    \/ \E w \in 1..MaxWriters : w \in Writers /\ WLock(w)
    \/ \E w \in 1..MaxWriters : w \in Writers /\ WDrain(w)
    \/ \E w \in 1..MaxWriters : w \in Writers /\ WExec(w)
    \/ \E w \in 1..MaxWriters : w \in Writers /\ WUnlock(w)
    \/ \E r \in 1..MaxReaders : r \in Readers /\ RSelect(r)
    \/ \E r \in 1..MaxReaders : r \in Readers /\ RRLock(r)
    \/ \E r \in 1..MaxReaders : r \in Readers /\ RQuery(r)
    \/ \E r \in 1..MaxReaders : r \in Readers /\ RRUnlock(r)

Spec == Init /\ [][Next]_vars

\* The runs checked for progress: every configuration whose row count is 0
\* (the update statement has no target to draw) or 1.  The scheduler runs a
\* goroutine that can take a step, so the program never stops while some
\* step is possible; the bounds MaxBusy and MaxScans make the store answer
\* in the end and keep the readers from scanning forever.
LiveInit == Init /\ numRows <= 1

FairSpec == LiveInit /\ [][Next]_vars /\ WF_vars(Next)

\* ---- vocabulary of the properties ---------------------------------------

\* runTest was called and has returned dur, nil
RunReturned ==
    /\ ctl \in {"report", "exit"}
    /\ testType \in LockTypes
    /\ err = "nil"

\* Lock() has returned and Unlock() has not yet been called
WIn(w) == wpc[w] \in {"exec", "unlock"}

\* RLock() has returned and RUnlock() has not yet been called
RIn(r) == rpc[r] \in {"query", "runlock"}

\* a writer has announced itself to the lock or holds it
WPresent(w) == wpc[w] \in {"drain", "exec", "unlock"}

Vals(h) == [i \in 1..Len(h) |-> h[i][1]]

IsPrefix(s, t) == Len(s) <= Len(t) /\ \A i \in 1..Len(s) : s[i] = t[i]

\* ---- C1 -------------------------------------------------------------------

\* C1: whenever runTest has returned dur, nil, exactly numUpdates
\* write-success marks have been printed, for every configuration and
\* however many retry marks were printed.
C1_SuccessMarksAnyConfig ==
    RunReturned => out[WRITE_CODE] = numUpdates

\* the same for the configurations that have a writer to do the updates
SuccessMarksGivenWriter ==
    (RunReturned /\ writerCount >= 1) => out[WRITE_CODE] = numUpdates

SuccessMarksGivenWriter_Witness ==
    /\ RunReturned
    /\ writerCount = 2 /\ readerCount = 0 /\ numUpdates = 2
    /\ Retries >= 1
    /\ out[WRITE_CODE] = 2

\* ---- C2 -------------------------------------------------------------------

\* the workers that hold the lock in exclusive mode
ExclHolders ==
    {<<"w", w>> : w \in {v \in Writers : WIn(v)}}
    \cup (IF testType = "mutex"
          THEN {<<"r", r>> : r \in {q \in Readers : RIn(q)}}
          ELSE {})

\* C2: under mutex and rwmutex at most one worker holds exclusive mode, and
\* while a writer is inside its critical section no other writer and no
\* reader is inside theirs.
C2_ExclusiveExcludesAll ==
    testType \in {"mutex", "rwmutex"} =>
        /\ Cardinality(ExclHolders) <= 1
        /\ \A w \in Writers : WIn(w) =>
              /\ \A v \in Writers \ {w} : ~WIn(v)
              /\ \A r \in Readers : ~RIn(r)

C2_Witness ==
    /\ testType = "rwmutex"
    /\ \E w \in Writers : WIn(w) /\ \E v \in Writers \ {w} : wpc[v] = "lock"
    /\ \E r \in Readers : rpc[r] = "rlock"

\* ---- C3 -------------------------------------------------------------------

\* C3: under mutex at most one worker, reader or writer, is between its
\* acquire and its release.
C3_MutexSerializesAll ==
    testType = "mutex" =>
        Cardinality({w \in Writers : WIn(w)}) + Cardinality({r \in Readers : RIn(r)}) <= 1

C3_Witness ==
    /\ testType = "mutex"
    /\ \E r \in Readers : RIn(r) /\ \E q \in Readers \ {r} : rpc[q] = "rlock"
    /\ \E w \in Writers : wpc[w] = "lock"

\* ---- C4 -------------------------------------------------------------------

\* C4: under rwmutex, while the process runs, a reader that calls RLock while other readers hold
\* shared mode, and no writer holds the lock or waits for it, is admitted:
\* shared holders do not exclude each other.
C4_SharedAdmitsReaders ==
    (testType = "rwmutex" /\ Running) =>
        \A r \in Readers :
            (/\ rpc[r] = "rlock"
             /\ \E q \in Readers \ {r} : RIn(q)
             /\ \A w \in Writers : ~WPresent(w))
            => ENABLED RRLock(r)

\* two readers hold shared mode at once and no writer holds exclusive mode
C4_Witness ==
    /\ testType = "rwmutex"
    /\ Cardinality({r \in Readers : RIn(r)}) >= 2
    /\ \A w \in Writers : ~WIn(w)
    /\ ~crashed

\* ---- C5 -------------------------------------------------------------------

\* C5: under "none", while the process runs, every worker that is at a Lock, Unlock, RLock or RUnlock
\* call can take that step at once, whatever the other workers hold.
C5_NoopNeverBlocks ==
    (testType = "none" /\ Running) =>
        /\ \A w \in Writers :
              /\ wpc[w] = "lock" => ENABLED WLock(w)
              /\ wpc[w] = "drain" => ENABLED WDrain(w)
              /\ wpc[w] = "unlock" => ENABLED WUnlock(w)
        /\ \A r \in Readers :
              /\ rpc[r] = "rlock" => ENABLED RRLock(r)
              /\ rpc[r] = "runlock" => ENABLED RRUnlock(r)

\* two writers and two readers are inside their store-access section at once,
\* and a further step of each kind is still to be taken
C5_Witness ==
    /\ testType = "none"
    /\ Cardinality({w \in Writers : WIn(w)}) >= 2
    /\ Cardinality({r \in Readers : RIn(r)}) >= 2

\* ---- C6 -------------------------------------------------------------------

\* every writer goroutine has returned and dur has been computed
WritersFinished == durTaken /\ \A w \in Writers : wpc[w] = "done"

\* C6: once the writer pool and the generator are started, every writer
\* eventually exits and the duration is computed, for every configuration;
\* and with numUpdates = 0 no writer ever attempts an update or prints a
\* write mark.
C6_WritersAlwaysExit ==
    /\ [](numUpdates = 0 =>
            /\ applied = <<>>
            /\ out[WRITE_CODE] = 0
            /\ \A w \in Writers : wpc[w] \notin {"lock", "drain", "exec", "unlock"})
    /\ (ctl = "waitWriters") ~> WritersFinished

\* the same with a row count the update statement can draw a target from
WritersExitGivenRows ==
    /\ [](numUpdates = 0 =>
            /\ applied = <<>>
            /\ out[WRITE_CODE] = 0
            /\ \A w \in Writers : wpc[w] \notin {"lock", "drain", "exec", "unlock"})
    /\ (ctl = "waitWriters" /\ (numRows >= 1 \/ numUpdates = 0)) ~> WritersFinished

\* ---- C7 -------------------------------------------------------------------

\* C7: after close(stopReaders) a reader completes at most one scan, a
\* reader at the select never begins another scan, and eventually every
\* reader has exited and readerWG.Wait() has returned.
C7_ReadersStop ==
    /\ [](\A r \in Readers :
            /\ doneAfterStop[r] <= 1
            /\ doneAfterStop[r] = 1 => rpc[r] \in {"runlock", "select", "done"})
    /\ [][stopReaders =>
            \A r \in Readers : rpc[r] = "select" => rpc'[r] \in {"select", "done"}]_vars
    /\ stopReaders ~> (/\ \A r \in Readers : rpc[r] = "done"
                       /\ readerWG = 0
                       /\ ctl \in {"report", "exit"})

C7_Witness ==
    /\ readerCount = 2
    /\ stopReaders
    /\ ctl = "report"
    /\ \A r \in Readers : rpc[r] = "done"
    /\ \E r \in Readers : doneAfterStop[r] = 1

\* ---- C8 -------------------------------------------------------------------

\* C8: with one writer the successful updates carry the payloads in the
\* order the generator sent them; with numRows = 1 they all hit id 1, and
\* when runTest has returned row 1 holds the last payload sent.
C8_SingleWriterOrder ==
    writerCount = 1 =>
        /\ IsPrefix(Vals(applied), enqueued)
        /\ RunReturned => Vals(applied) = enqueued
        /\ numRows = 1 =>
              /\ \A i \in 1..Len(applied) : applied[i][2] = 1
              /\ (RunReturned /\ numUpdates >= 1) =>
                    testData[1] = enqueued[Len(enqueued)]

C8_Witness ==
    /\ writerCount = 1 /\ numRows = 1 /\ numUpdates = 2
    /\ RunReturned
    /\ enqueued = <<1, 0>>
    /\ testData[1] = 0

\* ---- C9 -------------------------------------------------------------------

Queued == Cardinality({i \in 1..Len(workChan) : workChan[i] # Sentinel})

\* C10: the payloads received are, in order, the payloads sent (none twice,
\* none skipped), every payload sent is either received or still queued,
\* each one is received by one writer, which applies it once, and when
\* runTest has returned every payload sent has been received and applied.
C10_ExactlyOnce ==
    /\ IsPrefix(Vals(taken), enqueued)
    /\ Len(taken) + Queued = Len(enqueued)
    /\ \A i \in 1..Len(taken) : taken[i][2] \in Writers
    /\ Len(taken) = Len(applied)
            + Cardinality({w \in Writers : wpc[w] \in {"lock", "drain", "exec"}})
    /\ RunReturned => (Vals(taken) = enqueued /\ Len(applied) = Len(taken))

C10_Witness ==
    /\ RunReturned
    /\ writerCount = 2 /\ numUpdates = 2
    /\ Len(taken) = 2
    /\ taken[1][2] # taken[2][2]

\* ---- C11 ------------------------------------------------------------------

\* C11: every worker holds its lock at most once; it holds it exactly while
\* it is between the return of Lock()/RLock() and the call of
\* Unlock()/RUnlock(), retries included; it calls Lock()/RLock() only when
\* it holds nothing, releases only what it holds, and holds nothing when it
\* has exited; and the lock object agrees with what the workers hold.
C11_AcquireReleasePaired ==
    /\ \A w \in Writers :
          /\ wheld[w] \in {0, 1}
          /\ wheld[w] = 1 <=> WIn(w)
          /\ wpc[w] \in {"lock", "drain"} => wheld[w] = 0
          /\ wpc[w] = "unlock" => wheld[w] = 1
          /\ wpc[w] \in {"idle", "recv", "close", "done"} => wheld[w] = 0
    /\ \A r \in Readers :
          /\ rheld[r] \in {0, 1}
          /\ rheld[r] = 1 <=> RIn(r)
          /\ rpc[r] = "rlock" => rheld[r] = 0
          /\ rpc[r] = "runlock" => rheld[r] = 1
          /\ rpc[r] \in {"idle", "select", "done"} => rheld[r] = 0
    /\ panicMsg \notin {"unlock of unlocked mutex", "RUnlock of unlocked RWMutex"}
    /\ testType = "rwmutex" =>
          locker.r = Cardinality({r \in Readers : rheld[r] = 1})

\* a writer has released after a retry and exited while another worker of
\* each kind has exited too
C11_Witness ==
    /\ \E w \in Writers : wpc[w] = "done" /\ wtries[w] >= 1 /\ wheld[w] = 0
    /\ \E r \in Readers : rpc[r] = "done" /\ rheld[r] = 0 /\ out[SELECT_CODE] >= 1
    /\ ~crashed

\* ---- C12 ------------------------------------------------------------------

\* C12: a writer that is at db.Exec and a reader that is at db.Query hold
\* the lock: their Lock()/RLock() has returned, their Unlock()/RUnlock() is
\* still to come, and the lock object shows a holder.
C12_StoreAccessInsideLock ==
    /\ \A w \in Writers : wpc[w] = "exec" =>
          /\ wheld[w] = 1
          /\ testType \in {"mutex", "rwmutex"} => locker.w
    /\ \A r \in Readers : rpc[r] = "query" =>
          /\ rheld[r] = 1
          /\ testType = "mutex" => locker.w
          /\ testType = "rwmutex" => locker.r >= 1

\* a writer retries its UPDATE while a reader is at its scan
C12_Witness ==
    /\ \E w \in Writers : wpc[w] = "exec" /\ wtries[w] >= 1
    /\ \E r \in Readers : rpc[r] = "query"

\* ---- C13 ------------------------------------------------------------------

\* no reader, writer or generator goroutine was ever started
NoWorkerStarted ==
    /\ \A w \in Writers : wpc[w] = "idle"
    /\ \A r \in Readers : rpc[r] = "idle"
    /\ gpc = "idle"

\* C13: with a -type that is none of none, mutex, rwmutex no worker is
\* started, no duration is printed and the process ends with a non-zero exit
\* code; and a run that ends with an error ends with a non-zero exit code.
C13_FailuresExitNonZero ==
    /\ testType \notin LockTypes =>
          /\ NoWorkerStarted
          /\ ~durPrinted
          /\ ctl = "exit" => exitCode # 0
    /\ (err # "nil" /\ ctl = "exit") => exitCode # 0

\* ---- C14 ------------------------------------------------------------------

\* C14: once dur is computed or stopReaders is closed every writer has
\* exited, and once runTest has returned every reader has exited too.
C14_BarriersOrdered ==
    /\ (durTaken \/ stopReaders) => \A w \in Writers : wpc[w] = "done"
    /\ stopReaders => durTaken
    /\ RunReturned =>
          /\ durTaken /\ stopReaders
          /\ \A r \in Readers : rpc[r] = "done"

\* dur is computed after two writers have exited, while a reader is still
\* scanning and is yet to be told to stop
C14_Witness ==
    /\ ctl = "closeStop"
    /\ durTaken /\ ~stopReaders
    /\ writerCount = 2 /\ numUpdates = 2 /\ out[WRITE_CODE] = 2
    /\ \E r \in Readers : rpc[r] = "query"

\* ---- C17 ------------------------------------------------------------------

\* C17: when CREATE TABLE or a seed INSERT has failed, runTest is over, no
\* goroutine was started, no mark is printed, and no duration is computed or
\* printed.
C17_SetupFailureAborts ==
    err # "nil" =>
        /\ ctl \in {"report", "exit"}
        /\ NoWorkerStarted
        /\ \A m \in Marks : out[m] = 0
        /\ readerWG = 0 /\ writerWG = 0
        /\ ~durTaken /\ ~durPrinted

\* the second seed INSERT failed and main has reported the error
C17_Witness ==
    /\ err # "nil"
    /\ seedI = 1 /\ numRows = 2
    /\ writerCount = 2 /\ readerCount = 2
    /\ ctl = "exit" /\ exitCode = 1

\* ---- C15 ------------------------------------------------------------------

\* this step is an attempt of writer w at its UPDATE
WAttempted(w) ==
    /\ wpc[w] = "exec"
    /\ wpc'[w] = "unlock" \/ wtries'[w] = wtries[w] + 1

\* what a step does to a writer that is in its retry loop, whatever the
\* target: the writer stays in the loop or leaves it by a successful UPDATE
\* of its payload, keeps its payload and its lock, takes nothing from the
\* queue, and the run's error stays nil; after the loop comes Unlock() and
\* then the next receive
RetryLoopStep(w) ==
    /\ wpc[w] = "exec" =>
          /\ wpc'[w] \in {"exec", "unlock"}
          /\ wval'[w] = wval[w]
          /\ wheld'[w] = 1
          /\ taken' = taken \/ taken'[Len(taken')][2] # w
          /\ err' = "nil"
          /\ wpc'[w] = "unlock" =>
                applied' = Append(applied, <<wval[w], wid'[w]>>)
    /\ wpc[w] = "unlock" => wpc'[w] \in {"unlock", "recv"}

\* C15: a failed update is retried with the same payload against the same
\* target id, with the lock held and without another receive, until it
\* succeeds; the failure never becomes the run's error.
C15_RetrySameUpdate ==
    [][\A w \in Writers :
          /\ RetryLoopStep(w)
          /\ (WAttempted(w) /\ wtries[w] >= 1) => wid'[w] = wid[w]]_vars

\* C15 with the target as the code draws it: a failed update is retried
\* with the same payload against a target id drawn again in 1..numRows at
\* every attempt.
C15_RetrySamePayload ==
    [][\A w \in Writers :
          /\ RetryLoopStep(w)
          /\ WAttempted(w) => wid'[w] \in 1..numRows]_vars

\* a writer has succeeded after a failed attempt, with two rows to draw from
C15_Witness ==
    /\ numRows = 2
    /\ \E w \in Writers : wpc[w] = "unlock" /\ wtries[w] >= 1 /\ wheld[w] = 1
    /\ err = "nil"

\* ---- C16 ------------------------------------------------------------------

\* writer w has received the stop signal
GotSentinel(w) == wpc[w] \in {"close", "done"} /\ wval[w] = Sentinel

\* C16: the writer that received the stop signal puts it back on the queue
\* before it exits, and every writer that exits has received it.
C16_SentinelRepublished ==
    /\ [][\A w \in Writers :
            (wpc[w] = "close" /\ wpc'[w] = "done") =>
                workChan' = Append(workChan, Sentinel)]_vars
    /\ [](\A w \in Writers : wpc[w] = "done" => GotSentinel(w))

\* C16 as the code does it: the writer that received the stop signal closes
\* the queue before it exits and puts nothing back; at most one writer ever
\* receives the stop signal, and every other writer that has exited did so
\* on finding the queue closed and empty.
C16_SentinelClosesQueue ==
    /\ [][\A w \in Writers :
            (wpc[w] = "close" /\ wpc'[w] = "done") =>
                /\ chanClosed'
                /\ workChan' = workChan
                /\ \A i \in 1..Len(workChan') : workChan'[i] # Sentinel]_vars
    /\ [](Cardinality({w \in Writers : GotSentinel(w)}) <= 1)
    /\ [](\A w \in Writers :
            (wpc[w] = "done" /\ ~GotSentinel(w)) => (chanClosed /\ workChan = <<>>))

\* two writers have exited after doing updates, one of them on the stop
\* signal and the other on the closed queue
C16_Witness ==
    /\ writerCount = 2 /\ numUpdates = 2
    /\ \A w \in Writers : wpc[w] = "done"
    /\ Cardinality({w \in Writers : GotSentinel(w)}) = 1
    /\ chanClosed /\ workChan = <<>>

\* ---- C18 ------------------------------------------------------------------

\* C18: every update attempt of every writer targets an id in 1..numRows
\* that is a row of the table; no attempt targets id 0, so row 0 holds its
\* seed value 0 from the moment it is inserted until the run returns.
C18_TargetsInRange ==
    /\ [][\A w \in Writers :
            WAttempted(w) =>
                /\ wid'[w] \in 1..numRows
                /\ wid'[w] \in DOMAIN testData
                /\ wid'[w] # 0]_vars
    /\ [](\A i \in 1..Len(applied) :
            applied[i][2] \in (1..numRows) \cap DOMAIN testData)
    /\ [](seedI >= 1 => 0 \in DOMAIN testData)
    /\ [](0 \in DOMAIN testData => testData[0] = 0)

\* the run has returned after updates that changed the last row of two,
\* and row 0 still holds its seed value
C18_Witness ==
    /\ RunReturned /\ err = "nil"
    /\ numRows = 2
    /\ Len(applied) >= 2
    /\ \E i \in 1..Len(applied) : applied[i][2] = 2
    /\ testData[2] # 0
    /\ testData[0] = 0

\* ---- C19 ------------------------------------------------------------------

\* marks printed so far, and attempts made so far, of all kinds
TotalMarks(o) == o[WRITE_CODE] + o[SELECT_CODE] + Retries
TotalAttempts(a) == a["write"] + a["writeRetry"] + a["select"] + a["selectRetry"]

\* every step that makes an attempt prints one mark, and no other step prints
OneMarkPerAttempt ==
    [][/\ TotalAttempts(attempts') - TotalAttempts(attempts) \in {0, 1}
       /\ \A m \in Marks :
            out'[m] - out[m] \in {0, 1}
       /\ Cardinality({m \in Marks : out'[m] # out[m]})
            = TotalAttempts(attempts') - TotalAttempts(attempts)]_vars

\* C19: each attempt prints exactly one mark and the four kinds of attempt
\* print four different marks, so the number of marks of each kind in the
\* output is the number of attempts of that kind.
C19_MarkIdentifiesKind ==
    /\ OneMarkPerAttempt
    /\ [](/\ out[WRITE_CODE] = attempts["write"]
          /\ out[WRITE_RETRY_CODE] = attempts["writeRetry"]
          /\ out[SELECT_CODE] = attempts["select"]
          /\ out[SELECT_RETRY_CODE] = attempts["selectRetry"])

\* C19 with the marks the code prints: each attempt prints exactly one mark;
\* a successful write and a successful read have marks of their own, and the
\* failed write and the failed read share one mark, so there are three
\* different marks and the shared one counts the failed attempts of both
\* kinds together.
C19_MarkIdentifiesOutcome ==
    /\ OneMarkPerAttempt
    /\ [](/\ Cardinality(Marks) = 3
          /\ WRITE_RETRY_CODE = SELECT_RETRY_CODE
          /\ out[WRITE_CODE] = attempts["write"]
          /\ out[SELECT_CODE] = attempts["select"]
          /\ out[WRITE_RETRY_CODE]
               = attempts["writeRetry"] + attempts["selectRetry"])

\* a read has failed and writes and reads have succeeded
C19_Witness ==
    /\ attempts["selectRetry"] = 1
    /\ attempts["write"] >= 1
    /\ attempts["select"] >= 1
    /\ out[SELECT_RETRY_CODE] = 1

\* ---- C20 ------------------------------------------------------------------

\* this step is writer w's close(workChan)
ClosesNow(w) ==
    /\ wpc[w] = "close"
    /\ wpc'[w] = "done" \/ panicMsg' = "close of closed channel"

\* C20: with at least one writer, the queue is closed at most once and only
\* after the generator's last send, the stop signal: no writer closes a
\* closed queue, the generator never sends on a closed queue, and the run
\* never crashes on either.
C20_CloseOnceAfterLastSend ==
    /\ [][writerCount >= 1 =>
            /\ \A w \in Writers :
                  ClosesNow(w) =>
                     (~chanClosed /\ chanClosed' /\ gpc = "done" /\ ~crashed')
            /\ chanClosed => chanClosed'
            /\ (chanClosed /\ ~crashed') =>
                  (workChan' = workChan \/ workChan' = Tail(workChan))]_vars
    /\ [](writerCount >= 1 =>
            /\ chanClosed => gpc = "done"
            /\ \A w \in Writers : wpc[w] = "close" => ~chanClosed
            /\ panicMsg \notin {"send on closed channel",
                                "close of closed channel"})

\* two writers have exited after the queue was closed behind the last of
\* two updates, and nothing has crashed
C20_Witness ==
    /\ writerCount = 2 /\ numUpdates = 2
    /\ chanClosed /\ gpc = "done"
    /\ \A w \in Writers : wpc[w] = "done"
    /\ Len(applied) = 2
    /\ ~crashed

====
